---- MODULE Spec2Model ----
(***************************************************************************)
(* Model of the two scripts of the ESG portfolio repository:               *)
(*   main.py         builds the HTML dashboard (weights, quantities,       *)
(*                   portfolio value, metrics, multi-timeframe table);     *)
(*   update_data.py  fetches live prices, backtests against benchmarks     *)
(*                   and writes docs/portfolio.json.                       *)
(* Floating point numbers are modelled as exact rationals <<n, d>> (d > 0, *)
(* lowest terms); NaN and the infinities are explicit values.  Powers with *)
(* a fractional exponent and square roots are kept symbolic (base and      *)
(* exponent, squared value).                                               *)
(***************************************************************************)
EXTENDS Integers, Sequences, FiniteSets, TLC

\* ---------------------------------------------------------------- bounds
MaxLen == 3
MaxPrice == 2
MaxWeight == 3
MaxDay == 7

\* ----------------------------------------------------- program constants
INITIAL_INVESTMENT == 100000
TradingDays == 252

portfolio == {"CGNX", "DDD"}
benchmarks == {"QQQ", "SPY", "ESGU"}

\* ------------------------------------------------------ float arithmetic
Abs(x) == IF x < 0 THEN -x ELSE x

RECURSIVE GCD(_, _)
GCD(a, b) == IF b = 0 THEN a ELSE GCD(b, a % b)

Rat(n, d) ==
    LET s == IF d < 0 THEN -1 ELSE 1
        g == GCD(Abs(n), Abs(d))
    IN  <<(s * n) \div g, (s * d) \div g>>

Zero == <<0, 1>>
One == <<1, 1>>

\* operands are reduced against each other before multiplying
RAdd(x, y) ==
    LET g == GCD(x[2], y[2])
    IN  Rat(x[1] * (y[2] \div g) + y[1] * (x[2] \div g), (x[2] \div g) * y[2])
RNeg(x) == <<-x[1], x[2]>>
RSub(x, y) == RAdd(x, RNeg(y))
RMul(x, y) ==
    LET g == GCD(Abs(x[1]), y[2])
        h == GCD(Abs(y[1]), x[2])
    IN  Rat((x[1] \div g) * (y[1] \div h), (x[2] \div h) * (y[2] \div g))
RDiv(x, y) == RMul(x, IF y[1] < 0 THEN <<-y[2], -y[1]>> ELSE <<y[2], y[1]>>)
RLess(x, y) ==
    LET g == GCD(x[2], y[2])
    IN  x[1] * (y[2] \div g) < y[1] * (x[2] \div g)
RLeq(x, y) == ~RLess(y, x)

RMin(x, y) == IF RLeq(x, y) THEN x ELSE y
RMax(x, y) == IF RLeq(x, y) THEN y ELSE x

\* sum of f[k] over the keys k of S (dict.values() / Series.sum())
RECURSIVE SumOver(_, _)
SumOver(f, S) ==
    IF S = {} THEN Zero
    ELSE LET k == CHOOSE x \in S : TRUE
         IN  RAdd(f[k], SumOver(f, S \ {k}))

\* ---------------------------------------------------------- float values
Num(r) == [k |-> "num", v |-> r]
NaN == [k |-> "nan", v |-> Zero]
PosInf == [k |-> "inf", v |-> Zero]
NegInf == [k |-> "-inf", v |-> Zero]

\* fixed-point rendering: the nearest integer to n/d (d > 0), ties to even
RoundHalfEven(n, d) ==
    LET q == n \div d
        r == n % d
    IN  IF 2 * r < d THEN q
        ELSE IF 2 * r > d THEN q + 1
        ELSE IF q % 2 = 0 THEN q ELSE q + 1

\* Python's seq[k] / Series.iloc[k] for an integer k: k < 0 counts from the end
ILoc(s, k) == IF k < 0 THEN s[Len(s) + k + 1] ELSE s[k + 1]

\* ------------------------------------------------- market data (provider)
Prices == {<<p, 1>> : p \in 1..MaxPrice}
Series(n) == [1..n -> Prices]
RefSeries(n) == [i \in 1..n |-> <<1 + (i % 2), 1>>]

\* a price frame: its columns, its number of rows, one price column per ticker
Frame(cols, n, px) == [columns |-> cols, n |-> n, px |-> px]
EmptyFrame == Frame({}, 0, <<>>)
Frames(cols) ==
    UNION {{Frame(cols, n, px) : px \in [cols -> Series(n)]} : n \in 0..MaxLen}
RefFrame(cols, n) == Frame(cols, n, [t \in cols |-> RefSeries(n)])
\* frames in which one column varies and the others hold the reference series
OneColumnFrames(cols) ==
    UNION {UNION {{Frame(cols, n, [t \in cols |-> IF t = c THEN s ELSE RefSeries(n)])
                      : s \in Series(n)} : c \in cols} : n \in 0..MaxLen}

VARIABLES
    script,             \* which script runs: "main" or "update_data"
    pc,                 \* the section of the script about to run
    env,                \* what the outside world answers in this run
    error,              \* the exception that ended the run, or "none"
    files,              \* the files written so far
    weights,            \* main.py:24 / update_data.py:115
    data,               \* main.py:40 / update_data.py:112
    quantities,         \* main.py:56
    portfolio_values,   \* main.py:59
    portfolio_returns,  \* main.py:60 / update_data.py:117
    bench_data,         \* main.py:70
    daily_change_pct,   \* main.py:81
    metrics,            \* main.py:97 / update_data.py:141
    comparison,         \* main.py:122
    todo,               \* update_data.py:37, the tickers the loop has yet to fetch
    calls,              \* update_data.py:39, the download calls made, in order
    live_prices,        \* update_data.py:36 (results) / :93
    holdings,           \* update_data.py:96
    portfolio_growth    \* update_data.py:118

vars == <<script, pc, env, error, files, weights, data, quantities,
          portfolio_values, portfolio_returns, bench_data, daily_change_pct,
          metrics, comparison, todo, calls, live_prices, holdings, portfolio_growth>>

main_vars == <<quantities, portfolio_values, bench_data, daily_change_pct, comparison>>
update_vars == <<todo, calls, live_prices, holdings, portfolio_growth>>

\* ------------------------------------------------------- main.py: weights
\* weights = {k: v / sum(weights.values()) ...}
normalize(w) == [t \in DOMAIN w |-> RDiv(w[t], SumOver(w, DOMAIN w))]

\* weights = {k: v for k, v in weights.items() if k in data.columns}
filter_weights(w, columns) == [t \in (DOMAIN w) \cap columns |-> w[t]]

\* quantities = {t: (weights[t] * INITIAL_INVESTMENT) / first_prices[t] ...}
calc_quantities(w, d) ==
    [t \in DOMAIN w |-> RDiv(RMul(w[t], <<INITIAL_INVESTMENT, 1>>), d.px[t][1])]

\* data[list(weights.keys())].mul(list(quantities.values()), axis=1).sum(axis=1)
calc_portfolio_values(d, w, q) ==
    [i \in 1..d.n |-> SumOver([t \in DOMAIN w |-> RMul(d.px[t][i], q[t])], DOMAIN w)]

\* series.pct_change().dropna()
pct_change(s) ==
    IF Len(s) <= 1 THEN <<>>
    ELSE [i \in 1..(Len(s) - 1) |-> RSub(RDiv(s[i + 1], s[i]), One)]

\* ------------------------------------------------------ main.py: metrics
\* base ** exponent - 1, kept symbolic
Pow1(base, exponent) == [k |-> "pow", v |-> base, e |-> exponent]

\* the sign of base ** exponent - 1 for a positive exponent
Pow1Sign(c) == IF RLess(One, c.v) THEN 1 ELSE IF c.v = One THEN 0 ELSE -1

\* (values.iloc[-1] / values.iloc[0]) ** (252 / n) - 1
calc_cagr(values, n) ==
    Pow1(RDiv(ILoc(values, -1), ILoc(values, 0)), Rat(TradingDays, n))

\* Series.std() (ddof = 1) is NaN below two entries, and 0 exactly when all
\* entries are equal
std_is_zero(r) == \A i, j \in 1..Len(r) : r[i] = r[j]

\* returns.std() * np.sqrt(252), kept symbolic: the series it is the deviation of
calc_volatility(r) ==
    IF Len(r) < 2 THEN NaN ELSE [k |-> "std252", v |-> r]

volatility_is_zero(vol) == vol.k = "std252" /\ std_is_zero(vol.v)

\* cagr / volatility on numpy floats: a zero divisor gives inf or nan, no exception
calc_sharpe(c, vol) ==
    IF vol.k = "nan" THEN NaN
    ELSE IF volatility_is_zero(vol)
         THEN (IF Pow1Sign(c) > 0 THEN PosInf
               ELSE IF Pow1Sign(c) < 0 THEN NegInf ELSE NaN)
         ELSE [k |-> "quot", num |-> c, den |-> vol]

\* Series.cummax() / np.maximum.accumulate
RECURSIVE cummax_at(_, _)
cummax_at(s, i) == IF i = 1 THEN s[1] ELSE RMax(cummax_at(s, i - 1), s[i])

\* the maximum of the whole series at every position: Series.max() for cummax()
cummax_whole(s) == [i \in 1..Len(s) |-> cummax_at(s, Len(s))]

cummax(s) == [i \in 1..Len(s) |-> cummax_at(s, i)]

\* Series.min()
RECURSIVE seq_min(_)
seq_min(s) == IF Len(s) = 1 THEN s[1] ELSE RMin(Head(s), seq_min(Tail(s)))

\* (values / values.cummax()) - 1
drawdown(s) == [i \in 1..Len(s) |-> RSub(RDiv(s[i], cummax(s)[i]), One)]

\* ((values / values.cummax()) - 1).min()
calc_max_drawdown(s) == IF Len(s) = 0 THEN NaN ELSE Num(seq_min(drawdown(s)))

\* an f-string rendering of a symbolic value
Fmt(spec, x) == [fmt |-> spec, of |-> x]
Blank == [fmt |-> "", of |-> NaN]

\* the metrics DataFrame: one column per series, rows CAGR .. Max Drawdown
metrics_table(values, returns, bench) ==
    LET c == calc_cagr(values, Len(returns))
        vol == calc_volatility(returns)
    IN  [Portfolio |->
            [CAGR |-> Fmt("pct.2f", c),
             Volatility |-> Fmt("pct.2f", vol),
             Sharpe |-> Fmt(".2f", calc_sharpe(c, vol)),
             MaxDrawdown |-> Fmt("pct.2f", calc_max_drawdown(values))],
         QQQ |->
            [CAGR |-> Fmt("pct.2f", calc_cagr(bench.px["QQQ"], bench.n)),
             Volatility |-> Blank, Sharpe |-> Blank, MaxDrawdown |-> Blank],
         SPY |->
            [CAGR |-> Fmt("pct.2f", calc_cagr(bench.px["SPY"], bench.n)),
             Volatility |-> Blank, Sharpe |-> Blank, MaxDrawdown |-> Blank]]

\* --------------------------------------- main.py: multi-timeframe table
calc_return(series, days) ==
    IF Len(series) < days THEN NaN
    ELSE Num(RMul(RSub(RDiv(ILoc(series, -1), ILoc(series, -days)), One), <<100, 1>>))

Horizons == {"1M", "3M", "6M", "YTD", "1Y", "Since Inception"}

timeframes(dayofyear, values) ==
    [h \in Horizons |->
        CASE h = "1M" -> 21
          [] h = "3M" -> 63
          [] h = "6M" -> 126
          [] h = "YTD" -> (dayofyear \div 7) * 5
          [] h = "1Y" -> 252
          [] h = "Since Inception" -> Len(values) - 1]

\* f"{x:.2f}%" if pd.notnull(x) else "-"   (h: the value in hundredths)
render_cell(x) ==
    IF x.k = "nan" THEN [k |-> "-", h |-> 0]
    ELSE [k |-> "pct", h |-> RoundHalfEven(x.v[1] * 100, x.v[2])]

comparison_table(tf, values, bench) ==
    [h \in Horizons |->
        [s \in {"Portfolio"} \cup benchmarks |->
            render_cell(calc_return(IF s = "Portfolio" THEN values ELSE bench.px[s],
                                    tf[h]))]]

\* ------------------------------------------------------- main.py: the run
Fail(exception) ==
    /\ pc' = "failed"
    /\ error' = exception

\* main.py:30
Normalize ==
    /\ script = "main" /\ pc = "configure"
    /\ UNCHANGED update_vars
    /\ weights' = normalize(weights)
    /\ pc' = "download"
    /\ UNCHANGED <<script, env, error, files, data, quantities, portfolio_values,
                   portfolio_returns, bench_data, daily_change_pct, metrics, comparison>>

\* main.py:35-47
DownloadPortfolio ==
    /\ script = "main" /\ pc = "download"
    /\ UNCHANGED update_vars
    /\ data' = env.pft
    /\ pc' = "filter"
    /\ UNCHANGED <<script, env, error, files, weights, quantities, portfolio_values,
                   portfolio_returns, bench_data, daily_change_pct, metrics, comparison>>

\* the filter without its emptiness check
FilterWeightsUnchecked ==
    /\ script = "main" /\ pc = "filter"
    /\ UNCHANGED update_vars
    /\ weights' = filter_weights(weights, data.columns)
    /\ pc' = "quantities"
    /\ UNCHANGED <<script, env, error, files, data, quantities, portfolio_values,
                   portfolio_returns, bench_data, daily_change_pct, metrics, comparison>>

\* main.py:48-50
FilterWeights ==
    /\ script = "main" /\ pc = "filter"
    /\ UNCHANGED update_vars
    /\ weights' = filter_weights(weights, data.columns)
    /\ IF DOMAIN weights' = {}
       THEN Fail("ValueError")
       ELSE pc' = "quantities" /\ UNCHANGED error
    /\ UNCHANGED <<script, env, files, data, quantities, portfolio_values,
                   portfolio_returns, bench_data, daily_change_pct, metrics, comparison>>

\* main.py:55-56   (data.iloc[0] raises on a frame without rows)
CalcQuantities ==
    /\ script = "main" /\ pc = "quantities"
    /\ UNCHANGED update_vars
    /\ IF data.n = 0
       THEN Fail("IndexError") /\ UNCHANGED quantities
       ELSE /\ quantities' = calc_quantities(weights, data)
            /\ pc' = "values"
            /\ UNCHANGED error
    /\ UNCHANGED <<script, env, files, weights, data, portfolio_values,
                   portfolio_returns, bench_data, daily_change_pct, metrics, comparison>>

\* main.py:59-60
CalcValues ==
    /\ script = "main" /\ pc = "values"
    /\ UNCHANGED update_vars
    /\ portfolio_values' = calc_portfolio_values(data, weights, quantities)
    /\ portfolio_returns' = pct_change(portfolio_values')
    /\ pc' = "bench"
    /\ UNCHANGED <<script, env, error, files, weights, data, quantities,
                   bench_data, daily_change_pct, metrics, comparison>>

\* main.py:65-74
DownloadBench ==
    /\ script = "main" /\ pc = "bench"
    /\ UNCHANGED update_vars
    /\ bench_data' = env.bench
    /\ pc' = "snapshot"
    /\ UNCHANGED <<script, env, error, files, weights, data, quantities, portfolio_values,
                   portfolio_returns, daily_change_pct, metrics, comparison>>

\* main.py:79-87   (iloc[-2] raises on a series shorter than two)
Snapshot ==
    /\ script = "main" /\ pc = "snapshot"
    /\ UNCHANGED update_vars
    /\ IF Len(portfolio_values) < 2 \/ bench_data.n < 2
       THEN Fail("IndexError") /\ UNCHANGED daily_change_pct
       ELSE /\ daily_change_pct' =
                 RMul(RDiv(RSub(ILoc(portfolio_values, -1), ILoc(portfolio_values, -2)),
                           ILoc(portfolio_values, -2)), <<100, 1>>)
            /\ pc' = "metrics"
            /\ UNCHANGED error
    /\ UNCHANGED <<script, env, files, weights, data, quantities, portfolio_values,
                   portfolio_returns, bench_data, metrics, comparison>>

\* main.py:92-107
Metrics ==
    /\ script = "main" /\ pc = "metrics"
    /\ UNCHANGED update_vars
    /\ metrics' = metrics_table(portfolio_values, portfolio_returns, bench_data)
    /\ pc' = "comparison"
    /\ UNCHANGED <<script, env, error, files, weights, data, quantities, portfolio_values,
                   portfolio_returns, bench_data, daily_change_pct, comparison>>

\* main.py:112-128
Comparison ==
    /\ script = "main" /\ pc = "comparison"
    /\ UNCHANGED update_vars
    /\ comparison' = comparison_table(timeframes(env.dayofyear, portfolio_values),
                                      portfolio_values, bench_data)
    /\ pc' = "render"
    /\ UNCHANGED <<script, env, error, files, weights, data, quantities, portfolio_values,
                   portfolio_returns, bench_data, daily_change_pct, metrics>>

\* main.py:154-272
Render ==
    /\ script = "main" /\ pc = "render"
    /\ UNCHANGED update_vars
    /\ files' = files \cup {"outputs/charts/dashboard_charts.png",
                            "outputs/charts/portfolio_vs_benchmarks.png",
                            "docs/charts/dashboard_charts.png",
                            "docs/charts/portfolio_vs_benchmarks.png",
                            "docs/index.html"}
    /\ pc' = "done"
    /\ UNCHANGED <<script, env, error, weights, data, quantities, portfolio_values,
                   portfolio_returns, bench_data, daily_change_pct, metrics, comparison>>

NextMain ==
    \/ Normalize \/ DownloadPortfolio \/ FilterWeights \/ CalcQuantities
    \/ CalcValues \/ DownloadBench \/ Snapshot \/ Metrics \/ Comparison \/ Render

\* ------------------------------------------------ update_data.py: the run
tickers == <<"CGNX", "DDD">>
update_benchmarks == {"QQQ", "SPY"}

\* the "weight" entries of portfolio_allocations
portfolio_allocations == [t \in portfolio |-> IF t = "CGNX" THEN Rat(333, 100) ELSE Rat(222, 100)]

\* one pass of the loop body of fetch_live_prices for an outcome of yf.download
fetch_result(outcome) == IF outcome.kind = "ok" THEN outcome.price ELSE Zero

\* update_data.py:37-47, one iteration; :48 and :93 after the last one
FetchOne ==
    /\ script = "update_data" /\ pc = "fetch"
    /\ todo # <<>>
    /\ LET ticker == Head(todo)
       IN  /\ calls' = Append(calls, ticker)
           /\ live_prices' = [t \in (DOMAIN live_prices) \cup {ticker} |->
                                 IF t = ticker THEN fetch_result(env.fetch[ticker])
                                 ELSE live_prices[t]]
    /\ todo' = Tail(todo)
    /\ pc' = IF todo' = <<>> THEN "holdings" ELSE "fetch"
    /\ UNCHANGED <<script, env, error, files, weights, data, portfolio_returns, metrics,
                   holdings, portfolio_growth>>
    /\ UNCHANGED main_vars

\* round(x, 2)
round2(x) == Rat(RoundHalfEven(x[1] * 100, x[2]), 100)

\* update_data.py:96-108   (last_price of every holding)
BuildHoldings ==
    /\ script = "update_data" /\ pc = "holdings"
    /\ holdings' = [t \in portfolio |->
                       round2(IF t \in DOMAIN live_prices THEN live_prices[t] ELSE Zero)]
    /\ pc' = "history"
    /\ UNCHANGED <<script, env, error, files, weights, data, portfolio_returns, metrics,
                   todo, calls, live_prices, portfolio_growth>>
    /\ UNCHANGED main_vars

\* update_data.py:111-112
DownloadHistory ==
    /\ script = "update_data" /\ pc = "history"
    /\ data' = env.hist
    /\ pc' = "backtest"
    /\ UNCHANGED <<script, env, error, files, weights, portfolio_returns, metrics>>
    /\ UNCHANGED <<main_vars, update_vars>>

\* data[tickers].pct_change().dropna().dot(weights)
dot_returns(d, w) ==
    IF d.n <= 1 THEN <<>>
    ELSE [i \in 1..(d.n - 1) |->
             SumOver([t \in DOMAIN w |-> RMul(pct_change(d.px[t])[i], w[t])], DOMAIN w)]

\* (1 + returns).cumprod()
RECURSIVE cumprod_at(_, _)
cumprod_at(r, i) ==
    IF i = 1 THEN RAdd(One, r[1]) ELSE RMul(cumprod_at(r, i - 1), RAdd(One, r[i]))

cumprod(r) == [i \in 1..Len(r) |-> cumprod_at(r, i)]

\* update_data.py:115-118
Backtest ==
    /\ script = "update_data" /\ pc = "backtest"
    /\ weights' = normalize(portfolio_allocations)
    /\ portfolio_returns' = dot_returns(data, weights')
    /\ portfolio_growth' = cumprod(portfolio_returns')
    /\ pc' = "plot"
    /\ UNCHANGED <<script, env, error, files, data, metrics, todo, calls, live_prices,
                   holdings>>
    /\ UNCHANGED main_vars

\* update_data.py:125-134
Plot ==
    /\ script = "update_data" /\ pc = "plot"
    /\ files' = files \cup {"docs/charts/portfolio_vs_benchmarks.png"}
    /\ pc' = "calc_metrics"
    /\ UNCHANGED <<script, env, error, weights, data, portfolio_returns, metrics>>
    /\ UNCHANGED <<main_vars, update_vars>>

\* update_data.py:79-85
calculate_metrics(portfolio_daily) ==
    LET cum_return == cumprod(portfolio_daily)
    IN  [total_return |-> Num(RSub(ILoc(cum_return, -1), One)),
         cagr |-> Pow1(ILoc(cum_return, -1), Rat(1, 3)),
         max_drawdown |-> calc_max_drawdown(cum_return)]

\* the string literal "0.88"
SharpeLiteral == Fmt("literal", Num(Rat(88, 100)))

\* update_data.py:141-158
benchmark_metrics(p, qqq, spy) ==
    [Portfolio |->
        [TotalReturn |-> Fmt(".2%", p.total_return),
         CAGR |-> Fmt(".2%", p.cagr),
         MaxDrawdown |-> Fmt(".2%", p.max_drawdown),
         Sharpe |-> SharpeLiteral],
     QQQ |->
        [TotalReturn |-> Fmt(".2%", qqq.total_return),
         CAGR |-> Fmt(".2%", qqq.cagr),
         MaxDrawdown |-> Fmt(".2%", qqq.max_drawdown),
         Sharpe |-> Blank],
     SPY |->
        [TotalReturn |-> Fmt(".2%", spy.total_return),
         CAGR |-> Fmt(".2%", spy.cagr),
         MaxDrawdown |-> Fmt(".2%", spy.max_drawdown),
         Sharpe |-> Blank]]

\* update_data.py:137-158   (cum_return[-1] raises on an empty series)
UpdateMetrics ==
    /\ script = "update_data" /\ pc = "calc_metrics"
    /\ IF Len(portfolio_returns) = 0
       THEN Fail("IndexError") /\ UNCHANGED metrics
       ELSE /\ metrics' = benchmark_metrics(
                              calculate_metrics(portfolio_returns),
                              calculate_metrics(pct_change(data.px["QQQ"])),
                              calculate_metrics(pct_change(data.px["SPY"])))
            /\ pc' = "write"
            /\ UNCHANGED error
    /\ UNCHANGED <<script, env, files, weights, data, portfolio_returns>>
    /\ UNCHANGED <<main_vars, update_vars>>

\* update_data.py:161-170
WriteJson ==
    /\ script = "update_data" /\ pc = "write"
    /\ files' = files \cup {"docs/portfolio.json"}
    /\ pc' = "done"
    /\ UNCHANGED <<script, env, error, weights, data, portfolio_returns, metrics>>
    /\ UNCHANGED <<main_vars, update_vars>>

NextUpdate ==
    \/ FetchOne \/ BuildHoldings \/ DownloadHistory \/ Backtest
    \/ Plot \/ UpdateMetrics \/ WriteJson

\* -------------------------------------------------------- the runs explored
RawWeights == [portfolio -> {<<w, 1>> : w \in 1..MaxWeight}]
\* the entries of the weights literal for these tickers
RefWeights == [t \in portfolio |-> IF t = "CGNX" THEN Rat(3, 100) ELSE Rat(2, 100)]
RefDay == 1

\* the scenario of prices 100, 110, 99
ScenarioSeries == <<(<<100, 1>>), (<<110, 1>>), (<<99, 1>>)>>
ScenarioFrame(cols) == Frame(cols, 3, [t \in cols |-> ScenarioSeries])

MainEnv(pft, bench, dayofyear) == [pft |-> pft, bench |-> bench, dayofyear |-> dayofyear]

\* one input varies at a time, the others hold a reference value
MainRuns ==
    LET refp == RefFrame(portfolio, MaxLen)
        refb == RefFrame(benchmarks, MaxLen)
    IN  UNION {
          {<<w, MainEnv(RefFrame(c, MaxLen), refb, RefDay)>> :
              w \in RawWeights, c \in SUBSET portfolio},
          {<<RefWeights, MainEnv(f, refb, RefDay)>> :
              f \in UNION {Frames(c) : c \in SUBSET portfolio}},
          {<<RefWeights, MainEnv(ScenarioFrame(c), refb, RefDay)>> :
              c \in (SUBSET portfolio) \ {{}}},
          {<<RefWeights, MainEnv(refp, f, d)>> :
              f \in OneColumnFrames(benchmarks), d \in {RefDay, MaxDay}}
        }

Unset == [fmt |-> "unset", of |-> NaN]

InitMain ==
    /\ script = "main"
    /\ pc = "configure"
    /\ \E run \in MainRuns : weights = run[1] /\ env = run[2]
    /\ error = "none"
    /\ files = {}
    /\ data = EmptyFrame
    /\ quantities = <<>>
    /\ portfolio_values = <<>>
    /\ portfolio_returns = <<>>
    /\ bench_data = EmptyFrame
    /\ daily_change_pct = Zero
    /\ metrics = Unset
    /\ comparison = Unset
    /\ todo = <<>>
    /\ calls = <<>>
    /\ live_prices = <<>>
    /\ holdings = <<>>
    /\ portfolio_growth = <<>>

\* what yf.download(ticker, period="1d") does for one ticker
Outcomes ==
    {[kind |-> "ok", price |-> p] : p \in Prices}
        \cup {[kind |-> k, price |-> Zero] : k \in {"empty", "exception"}}
RefOutcome == [kind |-> "ok", price |-> One]

UpdateEnv(fetch, hist) == [fetch |-> fetch, hist |-> hist]

\* a frame of the tickers and the benchmarks from one frame of each
Join(f, g) == Frame(f.columns \cup g.columns, f.n,
                    [t \in f.columns \cup g.columns |->
                        IF t \in f.columns THEN f.px[t] ELSE g.px[t]])

UpdateRuns ==
    LET all == portfolio \cup update_benchmarks
        reff == [t \in portfolio |-> RefOutcome]
    IN  UNION {
          {UpdateEnv(f, RefFrame(all, MaxLen)) : f \in [portfolio -> Outcomes]},
          {UpdateEnv(reff, Join(f, RefFrame(update_benchmarks, f.n))) :
              f \in Frames(portfolio)},
          {UpdateEnv(reff, f) : f \in OneColumnFrames(all)},
          {UpdateEnv(reff, ScenarioFrame(all))}
        }

InitUpdate ==
    /\ script = "update_data"
    /\ pc = "fetch"
    /\ env \in UpdateRuns
    /\ error = "none"
    /\ files = {}
    /\ weights = <<>>
    /\ data = EmptyFrame
    /\ quantities = <<>>
    /\ portfolio_values = <<>>
    /\ portfolio_returns = <<>>
    /\ bench_data = EmptyFrame
    /\ daily_change_pct = Zero
    /\ metrics = Unset
    /\ comparison = Unset
    /\ todo = tickers
    /\ calls = <<>>
    /\ live_prices = <<>>
    /\ holdings = <<>>
    /\ portfolio_growth = <<>>

Init == InitMain \/ InitUpdate
Next == NextMain \/ NextUpdate
Spec == Init /\ [][Next]_vars

\* ------------------------------------------------------------ properties
MetricsDone == metrics # Unset
ComparisonDone == comparison # Unset
FilterDone == script = "main" /\ pc \notin {"configure", "download", "filter"}

NonDecreasing(s) == \A i \in 1..(Len(s) - 1) : RLeq(s[i], s[i + 1])

\* the per-ticker simple return of date i + 1
SimpleReturn(d, t, i) == RSub(RDiv(d.px[t][i + 1], d.px[t][i]), One)

\* the series a column of the comparison table is computed from
ComparedSeries(s) == IF s = "Portfolio" THEN portfolio_values ELSE bench_data.px[s]
Lookback(h) == timeframes(env.dayofyear, portfolio_values)[h]

\* C1: whenever at least one weighted ticker survives the filter, the weight
\* vector the program uses sums to 1 (survivors are renormalised).
C1_WeightsSumToOne ==
    ((FilterDone \/ script = "update_data") /\ DOMAIN weights # {})
        => SumOver(weights, DOMAIN weights) = One

\* C2: with at least two assets and three dates, the portfolio's return at
\* every date is the dot product of that date's per-ticker simple returns with
\* the fixed weight vector.
C2_FixedWeightReturns ==
    (/\ Cardinality(DOMAIN weights) >= 2
     /\ data.n >= 3
     /\ Len(portfolio_returns) = data.n - 1)
        => \A i \in 1..Len(portfolio_returns) :
              portfolio_returns[i] =
                  SumOver([t \in DOMAIN weights |->
                              RMul(SimpleReturn(data, t, i), weights[t])],
                          DOMAIN weights)

\* C3: a horizon whose lookback is at least the number of observations of the
\* series is reported as "not available" ("-"), never as a number.
C3_NotAvailableWhenTooLong ==
    ComparisonDone =>
        \A h \in Horizons, s \in {"Portfolio"} \cup benchmarks :
            Lookback(h) >= Len(ComparedSeries(s)) => comparison[h][s].k = "-"

\* C4: a horizon with lookback L below the series length reports
\* value[last] / value[last - L] - 1 (rendered as a percentage).
C4_ReturnOverLookback ==
    ComparisonDone =>
        \A h \in Horizons, s \in {"Portfolio"} \cup benchmarks :
            LET v == ComparedSeries(s)
                L == Lookback(h)
            IN  L < Len(v) =>
                    comparison[h][s] =
                        render_cell(Num(RMul(RSub(RDiv(v[Len(v)], v[Len(v) - L]), One),
                                             <<100, 1>>)))

\* C5: with zero volatility the Sharpe computation signals an error: no
\* metrics are produced and the run does not go on.
C5_ZeroVolatilitySignalled ==
    (script = "main" /\ volatility_is_zero(calc_volatility(portfolio_returns)))
        => (~MetricsDone /\ pc \notin {"comparison", "render", "done"})

\* C6: every reported CAGR is (last / first) ^ (252 / N) - 1 with N the number
\* of daily returns of that series, for the portfolio and every benchmark.
C6_CagrExponent ==
    MetricsDone =>
        IF script = "main"
        THEN /\ metrics.Portfolio.CAGR.of =
                    Pow1(RDiv(ILoc(portfolio_values, -1), ILoc(portfolio_values, 0)),
                         Rat(TradingDays, Len(portfolio_values) - 1))
             /\ \A b \in {"QQQ", "SPY"} :
                    metrics[b].CAGR.of =
                        Pow1(RDiv(ILoc(bench_data.px[b], -1), ILoc(bench_data.px[b], 0)),
                             Rat(TradingDays, bench_data.n - 1))
        ELSE /\ metrics.Portfolio.CAGR.of =
                    Pow1(ILoc(portfolio_growth, -1),
                         Rat(TradingDays, Len(portfolio_returns)))
             /\ \A b \in {"QQQ", "SPY"} :
                    metrics[b].CAGR.of =
                        Pow1(RDiv(ILoc(data.px[b], -1), ILoc(data.px[b], 0)),
                             Rat(TradingDays, data.n - 1))

\* C7: the Sharpe ratio reported for the portfolio is this run's CAGR divided
\* by this run's annualized volatility.
C7_SharpeIsDerived ==
    MetricsDone =>
        metrics.Portfolio.Sharpe.of =
            calc_sharpe(metrics.Portfolio.CAGR.of, calc_volatility(portfolio_returns))

\* the max drawdown cell c reported for the series s
DrawdownOk(c, s) ==
    /\ c.of.k = "num"
    /\ RLeq(c.of.v, Zero)
    /\ NonDecreasing(s) => c.of.v = Zero
    /\ (Len(s) = 3 /\ RDiv(s[2], s[1]) = Rat(110, 100) /\ RDiv(s[3], s[1]) = Rat(99, 100))
           => c.of.v = Rat(-1, 10)
    /\ (s = <<Rat(110, 100), Rat(99, 100)>>) => c.of.v = Rat(-1, 10)

\* C8: every reported max drawdown is <= 0, is exactly 0 for a non-decreasing
\* series, and is -0.10 for the series 100, 110, 99.
C8_MaxDrawdown ==
    MetricsDone =>
        IF script = "main"
        THEN DrawdownOk(metrics.Portfolio.MaxDrawdown, portfolio_values)
        ELSE /\ DrawdownOk(metrics.Portfolio.MaxDrawdown, portfolio_growth)
             /\ \A b \in {"QQQ", "SPY"} :
                    DrawdownOk(metrics[b].MaxDrawdown, cumprod(pct_change(data.px[b])))

\* a run of main.py that reported a drawdown of -0.10 for prices 100, 110, 99
C8_Witness ==
    /\ script = "main" /\ MetricsDone
    /\ \A t \in DOMAIN weights : data.px[t] = ScenarioSeries
    /\ metrics.Portfolio.MaxDrawdown.of = Num(Rat(-1, 10))

\* C9: when no weighted ticker has usable data, the run fails before any
\* quantity, value, return or metric is computed and before any file is written.
C9_EmptyWeightsFail ==
    (FilterDone /\ DOMAIN weights = {}) =>
        /\ pc = "failed" /\ error = "ValueError"
        /\ quantities = <<>> /\ portfolio_values = <<>> /\ portfolio_returns = <<>>
        /\ ~MetricsDone /\ ~ComparisonDone
        /\ files = {}

\* a run whose filter left no ticker, with raw weights on both tickers
C9_Witness ==
    /\ script = "main" /\ pc = "failed" /\ error = "ValueError"
    /\ DOMAIN weights = {} /\ data.columns = {}

\* the number of download calls made for ticker t
RECURSIVE CallCount(_, _)
CallCount(c, t) ==
    IF c = <<>> THEN 0
    ELSE (IF Head(c) = t THEN 1 ELSE 0) + CallCount(Tail(c), t)

\* C10: once fetch_live_prices has returned, every ticker has exactly one
\* entry (the fetched price, or 0 after a failure), the call did not raise,
\* tickers were processed in list order, and a ticker whose fetch failed was
\* tried again before the fallback.
C10_FetchRetriesThenFallsBack ==
    (script = "update_data" /\ pc # "fetch") =>
        /\ DOMAIN live_prices = portfolio
        /\ \A t \in portfolio :
              live_prices[t] = (IF env.fetch[t].kind = "ok" THEN env.fetch[t].price ELSE Zero)
        /\ \A i, j \in 1..Len(calls) :
              (i < j /\ calls[i] = tickers[2]) => calls[j] # tickers[1]
        /\ \A t \in portfolio :
              env.fetch[t].kind # "ok" => CallCount(calls, t) >= 2

====
